---------------------------- MODULE Spec2Model ----------------------------
(***************************************************************************)
(* Window functions of dask-sql (dask_sql/physical/rel/logical/window.py). *)
(*                                                                         *)
(* Four specifications share the definitions below:                        *)
(*   SpecBound  to_bound_description applied to one raw frame bound        *)
(*   SpecFrame  the frame ranges a windowed partition hands to an          *)
(*              aggregation (the branch of map_on_each_group and the       *)
(*              indexer behind it)                                         *)
(*   SpecGroup  map_on_each_group applied to one partition                 *)
(*   Spec       DaskWindowPlugin.convert: _apply_window per window group   *)
(*                                                                         *)
(* An optional Python value is a sequence: <<>> is None, <<v>> is v.       *)
(* Arrays are functions on 0 .. n-1, as numpy indexes them.                *)
(***************************************************************************)
EXTENDS Integers, Sequences, FiniteSets, TLC

VARIABLES
    \* to_bound_description
    java_window,            \* the raw bound (the Java RexWindowBound)
    constants,              \* the constant pool, a list of literals
    constant_count_offset,  \* number of real columns before the pool
    bound,                  \* outcome of to_bound_description
    \* frame computation and map_on_each_group
    lower_bound,            \* BoundDescription
    upper_bound,            \* BoundDescription
    num_values,             \* partition length handed to the indexer
    frame,                  \* outcome of the frame computation
    partitioned_group,      \* the partition, a sequence of rows
    sort_columns,
    sort_ascending,
    sort_null_first,
    operations,             \* sequence of operation descriptions
    group_out,              \* outcome of map_on_each_group
    \* convert / _apply_window
    df_columns,             \* backend columns of the dask dataframe
    cc_columns,             \* column container: <<frontend, backend>> pairs
    window,                 \* the window group last handed to _apply_window
    groups_done,            \* window groups applied so far
    status,                 \* "running", "raised", "returned"
    error,                  \* the exception raised, <<>> if none
    tasks,                  \* deferred groupby-apply tasks in the dask graph
    processed               \* deferred tasks that have run on their partitions

boundVars == <<java_window, bound>>
poolVars  == <<constants, constant_count_offset>>
frameVars == <<num_values, frame>>
frameIn   == <<lower_bound, upper_bound>>
groupVars == <<partitioned_group, sort_columns, sort_ascending, sort_null_first,
               operations, group_out>>
planVars  == <<df_columns, cc_columns, window, groups_done, status, error,
               tasks, processed>>
vars == <<boundVars, poolVars, frameVars, frameIn, groupVars, planVars>>

---------------------------------------------------------------------------
\* Bounds of the model.
MaxOffset == 2      \* largest frame offset (k PRECEDING / k FOLLOWING)
MaxN == 3           \* largest partition length
MaxPool == 2        \* largest constant pool
MaxCols == 2        \* largest number of real input columns
MaxCalls == 2       \* most aggregate calls in one window group
MaxGroups == 2      \* most window groups in one plan

None == <<>>
Some(v) == <<v>>
IsNone(x) == x = <<>>
Val(x) == x[1]

Min(a, b) == IF a < b THEN a ELSE b
Max(a, b) == IF a > b THEN a ELSE b
clamp(x, lo, hi) == Max(lo, Min(x, hi))

Pending == [tag |-> "pending"]
Raise(e) == [tag |-> "raise", error |-> e]

---------------------------------------------------------------------------
\* BoundDescription (a namedtuple of four flags and an optional offset).
BoundDescription(u, p, f, c, o) ==
    [is_unbounded |-> u, is_preceding |-> p, is_following |-> f,
     is_current_row |-> c, offset |-> o]

\* The bound descriptions a Calcite frame bound resolves to.
UNBOUNDED_PRECEDING == BoundDescription(TRUE, TRUE, FALSE, FALSE, None)
UNBOUNDED_FOLLOWING == BoundDescription(TRUE, FALSE, TRUE, FALSE, None)
CURRENT_ROW == BoundDescription(FALSE, FALSE, FALSE, TRUE, None)
PRECEDING(k) == BoundDescription(FALSE, TRUE, FALSE, FALSE, Some(k))
FOLLOWING(k) == BoundDescription(FALSE, FALSE, TRUE, FALSE, Some(k))

BoundDescriptions ==
    {UNBOUNDED_PRECEDING, UNBOUNDED_FOLLOWING, CURRENT_ROW}
        \cup {PRECEDING(k) : k \in 0..MaxOffset}
        \cup {FOLLOWING(k) : k \in 0..MaxOffset}

---------------------------------------------------------------------------
\* numpy: a slice bound k of an array of length n (negative counts from the end).
SliceIndex(k, n) == IF k < 0 THEN Max(k + n, 0) ELSE Min(k, n)

\* numpy: arr[:k] = v
AssignUpTo(arr, k, v, n) ==
    [i \in 0..(n - 1) |-> IF i < SliceIndex(k, n) THEN v ELSE arr[i]]

\* numpy: arr[k:] = v
AssignFrom(arr, k, v, n) ==
    [i \in 0..(n - 1) |-> IF i >= SliceIndex(k, n) THEN v ELSE arr[i]]

\* numpy: np.arange(a, a + n)
arange(a, n) == [i \in 0..(n - 1) |-> a + i]

\* Indexer.get_window_bounds with self.start = start, self.end = end
\* (optional integers) and num_values = n.
IndexerStart(start, n) ==
    IF IsNone(start) THEN [i \in 0..(n - 1) |-> 0]
    ELSE IF Val(start) < 0 THEN AssignUpTo(arange(Val(start), n), -Val(start), 0, n)
    ELSE IF Val(start) > 0 THEN AssignFrom(arange(Val(start), n), -Val(start), n, n)
    ELSE arange(Val(start), n)

\* get_window_bounds without the assignments that clamp the end array.
get_window_bounds_unclamped(start, end, n) ==
    IF IsNone(end)
        THEN [tag |-> "ok", start |-> IndexerStart(start, n),
              end |-> [i \in 0..(n - 1) |-> n]]
    ELSE IF Val(end) # 0
        THEN [tag |-> "ok", start |-> IndexerStart(start, n),
              end |-> arange(Val(end) + 1, n)]
    ELSE Raise("AssertionError")

get_window_bounds(start, end, n) ==
    IF IsNone(end)
        THEN [tag |-> "ok", start |-> IndexerStart(start, n),
              end |-> [i \in 0..(n - 1) |-> n]]
    ELSE IF Val(end) > 0
        THEN [tag |-> "ok", start |-> IndexerStart(start, n),
              end |-> AssignFrom(arange(Val(end) + 1, n), -Val(end), n, n)]
    ELSE IF Val(end) < 0
        THEN [tag |-> "ok", start |-> IndexerStart(start, n),
              end |-> AssignUpTo(arange(Val(end) + 1, n), -Val(end), 0, n)]
    ELSE Raise("AssertionError")

\* pandas: the bounds of DataFrame.expanding(min_periods=0).
ExpandingBounds(n) ==
    [tag |-> "ok", start |-> [i \in 0..(n - 1) |-> 0], end |-> arange(1, n)]

\* pandas: the bounds of DataFrame.rolling(window=w, min_periods=0):
\* end = arange(1, n + 1), start = end - w, both clipped to 0 .. n.
RollingBounds(w, n) ==
    [tag |-> "ok",
     start |-> [i \in 0..(n - 1) |-> clamp(i + 1 - w, 0, n)],
     end |-> [i \in 0..(n - 1) |-> clamp(i + 1, 0, n)]]

\* The signed offset map_on_each_group hands to the Indexer for one bound.
SignedOffset(b) ==
    LET o == IF ~b.is_current_row THEN b.offset ELSE Some(0)
    IN  IF b.is_preceding /\ ~IsNone(o) THEN Some(-Val(o)) ELSE o

UpperIsCurrent(upper) ==
    upper.is_current_row \/ upper.offset = Some(0)

\* The windowed group map_on_each_group builds: which branch, and with what.
WindowedGroup(lower, upper) ==
    IF lower.is_unbounded /\ UpperIsCurrent(upper)
        THEN [tag |-> "ok", branch |-> "expanding"]
    ELSE IF lower.is_preceding /\ UpperIsCurrent(upper)
        THEN IF IsNone(lower.offset) THEN Raise("TypeError")
             ELSE [tag |-> "ok", branch |-> "rolling",
                   window |-> Val(lower.offset) + 1]
    ELSE [tag |-> "ok", branch |-> "general",
          start |-> SignedOffset(lower), end |-> SignedOffset(upper)]

\* The (start, end) arrays a windowed group yields for a partition of n rows.
WindowBounds(wg, n) ==
    IF wg.tag # "ok" THEN wg
    ELSE IF wg.branch = "expanding" THEN ExpandingBounds(n)
    ELSE IF wg.branch = "rolling" THEN RollingBounds(wg.window, n)
    ELSE get_window_bounds(wg.start, wg.end, n)

---------------------------------------------------------------------------
\* to_bound_description

\* A Java frame-bound offset: a RexLiteral holding n, or a RexInputRef to
\* column index n of the unified column space (real columns, then the pool).
RexLiteral(v) == [kind |-> "RexLiteral", n |-> v]
RexInputRef(i) == [kind |-> "RexInputRef", n |-> i]

\* int(RexLiteralPlugin().convert(literal, None, None)): the literal's value.
RexLiteralConvert(literal) == literal.n

\* Python list indexing: list[index] is defined for -len <= index < len,
\* a negative index counting from the end.
ListIndexOk(list, index) == -Len(list) <= index /\ index < Len(list)
ListGet(list, index) ==
    IF index >= 0 THEN list[index + 1] ELSE list[Len(list) + index + 1]

JavaFlags(jw, offset) ==
    [tag |-> "ok",
     value |-> BoundDescription(jw.isUnbounded, jw.isPreceding, jw.isFollowing,
                                jw.isCurrentRow, offset)]

to_bound_description(jw, consts, count_offset) ==
    IF ~IsNone(jw.offset)
        THEN LET offset == Val(jw.offset)
                 index == offset.n - count_offset
             IN  IF offset.kind = "RexInputRef"
                     THEN IF ListIndexOk(consts, index)
                              THEN JavaFlags(jw,
                                       Some(RexLiteralConvert(ListGet(consts, index))))
                              ELSE Raise("IndexError")
                     ELSE JavaFlags(jw, Some(RexLiteralConvert(offset)))
        ELSE JavaFlags(jw, None)

\* Raw bounds: every combination of the four flags with no offset, a literal
\* offset or a reference.  Calcite produces five shapes of them; the others
\* are the malformed bounds the resolver may be handed.
JavaOffsets ==
    {None} \cup {Some(RexLiteral(v)) : v \in 0..MaxOffset}
           \cup {Some(RexInputRef(i)) : i \in 0..(MaxCols + MaxPool)}

JavaWindowBounds ==
    [isUnbounded : BOOLEAN, isPreceding : BOOLEAN, isFollowing : BOOLEAN,
     isCurrentRow : BOOLEAN, offset : JavaOffsets]

\* Constant pools: lists of at most MaxPool integer literals.
Pools ==
    UNION {[1..len -> {RexLiteral(v) : v \in 0..MaxOffset}] : len \in 0..MaxPool}

---------------------------------------------------------------------------
\* Values of the variables a specification does not use.
IdleBound == java_window = None /\ bound = Pending
IdlePool == constants = <<>> /\ constant_count_offset = 0
IdleFrame == num_values = 0 /\ frame = Pending
IdleFrameIn == lower_bound = None /\ upper_bound = None
IdleGroup ==
    /\ partitioned_group = <<>>
    /\ sort_columns = <<>>
    /\ sort_ascending = <<>>
    /\ sort_null_first = <<>>
    /\ operations = <<>>
    /\ group_out = Pending
IdlePlan ==
    /\ df_columns = <<>>
    /\ cc_columns = <<>>
    /\ window = None
    /\ groups_done = 0
    /\ status = "idle"
    /\ error = None
    /\ tasks = 0
    /\ processed = 0

---------------------------------------------------------------------------
\* SpecBound: the resolver applied to one raw bound.
InitBound ==
    /\ java_window \in JavaWindowBounds
    /\ constants \in Pools
    /\ constant_count_offset \in 0..MaxCols
    /\ bound = Pending
    /\ IdleFrame /\ IdleFrameIn /\ IdleGroup /\ IdlePlan

ResolveBound ==
    /\ bound = Pending
    /\ bound' = to_bound_description(java_window, constants, constant_count_offset)
    /\ UNCHANGED <<java_window, poolVars, frameVars, frameIn, groupVars, planVars>>

NextBound == ResolveBound
SpecBound == InitBound /\ [][NextBound]_vars

---------------------------------------------------------------------------
\* SpecFrame: the frame ranges of one partition.
InitFrame ==
    /\ lower_bound \in BoundDescriptions
    /\ upper_bound \in BoundDescriptions
    /\ num_values \in 0..MaxN
    /\ frame = Pending
    /\ IdleBound /\ IdlePool /\ IdleGroup /\ IdlePlan

\* An aggregation on the windowed group asks its indexer for the bounds.
ComputeFrame ==
    /\ frame = Pending
    /\ frame' = WindowBounds(WindowedGroup(lower_bound, upper_bound), num_values)
    /\ UNCHANGED <<num_values, frameIn, boundVars, poolVars, groupVars, planVars>>

NextFrame == ComputeFrame
SpecFrame == InitFrame /\ [][NextFrame]_vars

\* The branch map_on_each_group took for the bounds in the state.
Branch == WindowedGroup(lower_bound, upper_bound).branch
FrameDone == frame # Pending
Rows == 0..(num_values - 1)

---------------------------------------------------------------------------
\* map_on_each_group

\* A row has an identity and one original column k, which may be null.
KeyValues == {None, Some(1), Some(2)}
Row(j, v) == [id |-> j, k |-> v]

\* groupby.apply hands map_on_each_group the non-empty groups of the table.
Partitions ==
    UNION {{[j \in 1..n |-> Row(j, f[j])] : f \in [1..n -> KeyValues]} : n \in 1..MaxN}

\* a sorts strictly before b: nulls go where null_first says, whatever the
\* direction; values go by the direction.
Before(a, b, ascending, null_first) ==
    IF IsNone(a) \/ IsNone(b)
        THEN IF IsNone(a) /\ ~IsNone(b) THEN null_first
             ELSE IF ~IsNone(a) /\ IsNone(b) THEN ~null_first
             ELSE FALSE
        ELSE IF ascending THEN Val(a) < Val(b) ELSE Val(a) > Val(b)

RECURSIVE InsertRow(_, _, _, _, _)
InsertRow(row, sorted, col, ascending, null_first) ==
    IF sorted = <<>> THEN <<row>>
    ELSE IF Before(row[col], Head(sorted)[col], ascending, null_first)
        THEN <<row>> \o sorted
    ELSE <<Head(sorted)>> \o InsertRow(row, Tail(sorted), col, ascending, null_first)

\* A stable sort of the partition on one column.
RECURSIVE SortValues(_, _, _, _)
SortValues(partition, col, ascending, null_first) ==
    IF partition = <<>> THEN <<>>
    ELSE InsertRow(partition[Len(partition)],
                   SortValues(SubSeq(partition, 1, Len(partition) - 1),
                              col, ascending, null_first),
                   col, ascending, null_first)

\* sort_partition_func: one stable sort per sort column, the last column first.
RECURSIVE sort_partition_func(_, _, _, _)
sort_partition_func(partition, columns, ascending, null_first) ==
    IF columns = <<>> THEN partition
    ELSE LET m == Len(columns)
         IN  sort_partition_func(
                 SortValues(partition, columns[m], ascending[m], null_first[m]),
                 SubSeq(columns, 1, m - 1), SubSeq(ascending, 1, m - 1),
                 SubSeq(null_first, 1, m - 1))

\* map_on_each_group that never sorts.
ApplySortingSkipped(partition, columns, ascending, null_first) == partition

ApplySorting(partition, columns, ascending, null_first) ==
    IF columns # <<>>
        THEN sort_partition_func(partition, columns, ascending, null_first)
        ELSE partition

\* row_number counted from 0: range(0, len(partitioned_group)).
RowNumberColumnFromZero(n) == [tag |-> "ok", column |-> [i \in 1..n |-> i - 1]]

\* The row_number column: range(1, len(partitioned_group) + 1).
RowNumberColumn(n) == [tag |-> "ok", column |-> [i \in 1..n |-> i]]

\* CountOperation without a value column on the windowed group: the number
\* of rows in each row's frame [start, end).
CountOperation(wg, n) ==
    LET b == WindowBounds(wg, n)
    IN  IF b.tag # "ok" THEN b
        ELSE [tag |-> "ok",
              column |-> [i \in 1..n |->
                  Cardinality({j \in 0..(n - 1) : b.start[i - 1] <= j /\ j < b.end[i - 1]})]]

\* An operation is the tuple (f, new_column_name, temporary_operand_columns);
\* f = None is row_number.
ColumnResult(op, wg, n) ==
    IF IsNone(op[1]) THEN RowNumberColumn(n) ELSE CountOperation(wg, n)

map_on_each_group(partition, columns, ascending, null_first, lower, upper, ops) ==
    LET sorted == ApplySorting(partition, columns, ascending, null_first)
        n == Len(sorted)
        wg == WindowedGroup(lower, upper)
        results == [j \in 1..Len(ops) |-> ColumnResult(ops[j], wg, n)]
        failed == {j \in 1..Len(ops) : results[j].tag # "ok"}
        first == CHOOSE j \in failed : \A j2 \in failed : j <= j2
    IN  IF wg.tag # "ok" THEN wg
        ELSE IF failed # {} THEN results[first]
        ELSE [tag |-> "ok",
              rows |-> sorted,
              new_columns |-> [name \in {ops[j][2] : j \in 1..Len(ops)} |->
                  LET last == CHOOSE j \in 1..Len(ops) :
                                  /\ ops[j][2] = name
                                  /\ \A j2 \in 1..Len(ops) : ops[j2][2] = name => j2 <= j
                  IN  results[last].column]]

RowNumberOp(name) == <<None, name, <<>>>>
CountOp(name) == <<Some("count"), name, <<>>>>

OperationLists ==
    {<<RowNumberOp("c1")>>, <<CountOp("c1")>>,
     <<RowNumberOp("c1"), CountOp("c2")>>, <<CountOp("c1"), RowNumberOp("c2")>>}

SortSpecs ==
    {<<<<>>, <<>>, <<>>>>}
        \cup {<<<<"k">>, <<a>>, <<nf>>>> : a \in BOOLEAN, nf \in BOOLEAN}

\* SpecGroup: map_on_each_group applied to one partition.
InitGroup ==
    /\ partitioned_group \in Partitions
    /\ \E s \in SortSpecs :
        sort_columns = s[1] /\ sort_ascending = s[2] /\ sort_null_first = s[3]
    /\ lower_bound \in BoundDescriptions
    /\ upper_bound \in BoundDescriptions
    /\ operations \in OperationLists
    /\ group_out = Pending
    /\ IdleBound /\ IdlePool /\ IdleFrame /\ IdlePlan

MapOnEachGroup ==
    /\ group_out = Pending
    /\ group_out' = map_on_each_group(partitioned_group, sort_columns,
                                      sort_ascending, sort_null_first,
                                      lower_bound, upper_bound, operations)
    /\ UNCHANGED <<partitioned_group, sort_columns, sort_ascending,
                   sort_null_first, operations, frameIn, frameVars, boundVars,
                   poolVars, planVars>>

NextGroup == MapOnEachGroup
SpecGroup == InitGroup /\ [][NextGroup]_vars

GroupDone == group_out # Pending

---------------------------------------------------------------------------
\* DaskWindowPlugin: convert, _apply_window and the helpers it calls.

\* Column names are tuples <<kind, group, call, index>>.  A real input column
\* is <<"col", 0, 0, i>>.
RealColumn(i) == <<"col", 0, 0, i>>

\* new_temporary_column(df): a fresh random name, in no dataframe and equal to
\* no other fresh name; the name tells where it was drawn: for which window
\* group g, aggregate call c and position j, and for what.
new_temporary_column(kind, g, c, j) == <<kind, g, c, j>>

\* The field names of the output row type, by position.
FieldName(i) == <<"field", i>>

SeqToSet(seq) == {seq[j] : j \in 1..Len(seq)}

RECURSIVE Flatten(_)
Flatten(seqs) == IF seqs = <<>> THEN <<>> ELSE Head(seqs) \o Flatten(Tail(seqs))

\* str.lower() on the operator names of the plans below.
str_lower(name) ==
    CASE name = "ROW_NUMBER" -> "row_number"
      [] name = "SUM" -> "sum"
      [] name = "MYUDF" -> "myudf"
      [] name = "NOSUCHOP" -> "nosuchop"
      [] OTHER -> name

\* OPERATION_MAPPING: None for row_number, an operation object otherwise.
OPERATION_MAPPING ==
    [name \in {"row_number", "$sum0", "sum", "count", "max", "min",
               "single_value", "first_value", "last_value"} |->
        CASE name = "row_number" -> None
          [] name \in {"$sum0", "sum"} -> Some("SumOperation")
          [] name = "count" -> Some("CountOperation")
          [] name = "max" -> Some("MaxOperation")
          [] name = "min" -> Some("MinOperation")
          [] name \in {"single_value", "first_value"} -> Some("FirstValueOperation")
          [] OTHER -> Some("LastValueOperation")]

\* context.functions: the registry of user-defined functions.
context_functions == [name \in {"myudf"} |-> Some("myudf")]

\* A lookup that falls back to None (row_number) instead of raising.
LookupOperationOrNone(operator_name) ==
    IF operator_name \in DOMAIN OPERATION_MAPPING
        THEN [tag |-> "ok", operation |-> OPERATION_MAPPING[operator_name]]
    ELSE IF operator_name \in DOMAIN context_functions
        THEN [tag |-> "ok", operation |-> context_functions[operator_name]]
    ELSE [tag |-> "ok", operation |-> None]

\* The operator lookup of _extract_operations.
LookupOperation(operator_name) ==
    IF operator_name \in DOMAIN OPERATION_MAPPING
        THEN [tag |-> "ok", operation |-> OPERATION_MAPPING[operator_name]]
    ELSE IF operator_name \in DOMAIN context_functions
        THEN [tag |-> "ok", operation |-> context_functions[operator_name]]
    ELSE Raise("NotImplementedError")

\* cc.get_backend_by_frontend_index(i)
get_backend_by_frontend_index(cc, i) == cc[i + 1][2]

\* get_groupby_with_nulls_cols: an is-null column and a null-filled column
\* per partition key.
get_groupby_with_nulls_cols(group_columns) ==
    Flatten([j \in 1..Len(group_columns) |->
                <<<<"isnull", group_columns[j]>>, <<"fillna", group_columns[j]>>>>])

\* _extract_groupby for window group number g: (df, group_columns).
_extract_groupby(df, w, cc, g) ==
    LET values == IF w.keys # <<>>
                      THEN get_groupby_with_nulls_cols(
                               [j \in 1..Len(w.keys) |->
                                   get_backend_by_frontend_index(cc, w.keys[j])])
                      ELSE <<1>>
        group_columns == [j \in 1..Len(values) |->
                             new_temporary_column("group", g, 0, j)]
    IN  [df |-> df \o group_columns, group_columns |-> group_columns]

\* _extract_operations from aggregate call number c on, for window group
\* number g: the loop over window.aggCalls.
RECURSIVE ExtractFrom(_, _, _, _)
ExtractFrom(aggCalls, c, df, g) ==
    IF c > Len(aggCalls) THEN [tag |-> "ok", operations |-> <<>>, df |-> df]
    ELSE LET agg_call == aggCalls[c]
             found == LookupOperation(str_lower(agg_call.operator))
             temporary_operand_columns ==
                 [j \in 1..Len(agg_call.operands) |->
                     new_temporary_column("operand", g, c, j)]
             rest == ExtractFrom(aggCalls, c + 1, df \o temporary_operand_columns, g)
         IN  IF found.tag # "ok" THEN found
             ELSE IF rest.tag # "ok" THEN rest
             ELSE [tag |-> "ok",
                   operations |->
                       <<<<found.operation,
                           new_temporary_column("result", g, c, 0),
                           temporary_operand_columns>>>> \o rest.operations,
                   df |-> rest.df]

_extract_operations(w, df, g) == ExtractFrom(w.aggCalls, 1, df, g)

\* temporary_columns without the group columns.
TemporaryColumnsOperandsOnly(group_columns, ops) ==
    Flatten([j \in 1..Len(ops) |-> ops[j][3]])

\* temporary_columns of _apply_window.
TemporaryColumns(group_columns, ops) ==
    group_columns \o Flatten([j \in 1..Len(ops) |-> ops[j][3]])

\* df.drop(columns=...): every label must be a column.
Drop(df, columns) ==
    IF SeqToSet(columns) \subseteq SeqToSet(df)
        THEN [tag |-> "ok",
              df |-> SelectSeq(df, LAMBDA col : col \notin SeqToSet(columns))]
        ELSE Raise("KeyError")

\* cc.add(field_name, c) for each newly created column, in order.
RECURSIVE AddColumns(_, _)
AddColumns(cc, new_columns) ==
    IF new_columns = <<>> THEN cc
    ELSE AddColumns(Append(cc, <<FieldName(Len(cc)), Head(new_columns)>>),
                    Tail(new_columns))

\* _apply_window for window group number g on the table (df, cc).
_apply_window(w, consts, count_offset, df, cc, g) ==
    LET grouped == _extract_groupby(df, w, cc, g)
        extracted == _extract_operations(w, grouped.df, g)
        temporary_columns ==
            TemporaryColumns(grouped.group_columns, extracted.operations)
        newly_created_columns ==
            [j \in 1..Len(extracted.operations) |-> extracted.operations[j][2]]
        lower == to_bound_description(w.lowerBound, consts, count_offset)
        upper == to_bound_description(w.upperBound, consts, count_offset)
        applied == extracted.df \o newly_created_columns
        dropped == Drop(applied, temporary_columns)
    IN  IF extracted.tag # "ok" THEN extracted
        ELSE IF lower.tag # "ok" THEN lower
        ELSE IF upper.tag # "ok" THEN upper
        ELSE IF dropped.tag # "ok" THEN dropped
        ELSE [tag |-> "ok", df |-> dropped.df,
              cc |-> AddColumns(cc, newly_created_columns)]

\* The raw bound Calcite hands over for a resolved bound description.
JavaBound(b, offset) ==
    [isUnbounded |-> b.is_unbounded, isPreceding |-> b.is_preceding,
     isFollowing |-> b.is_following, isCurrentRow |-> b.is_current_row,
     offset |-> offset]

\* Window groups of the plans.
AggCalls ==
    {[operator |-> "ROW_NUMBER", operands |-> <<>>],
     [operator |-> "SUM", operands |-> <<0>>],
     [operator |-> "MYUDF", operands |-> <<0>>],
     [operator |-> "NOSUCHOP", operands |-> <<0>>]}

AggCallLists == UNION {[1..len -> AggCalls] : len \in 0..MaxCalls}

\* A lower bound is UNBOUNDED PRECEDING or k PRECEDING with k a reference to
\* column MaxCols: the first pool entry of a table of MaxCols real columns, a
\* later one of a smaller table, out of range when the pool is that short.
LowerBounds ==
    {JavaBound(UNBOUNDED_PRECEDING, None),
     JavaBound(PRECEDING(0), Some(RexInputRef(MaxCols)))}

UpperBounds == {JavaBound(CURRENT_ROW, None)}

Windows ==
    [keys : {<<>>, <<0>>}, aggCalls : AggCallLists,
     lowerBound : LowerBounds, upperBound : UpperBounds]

\* Spec: convert on a table of 1 .. MaxCols real columns.
Init ==
    /\ constant_count_offset \in 1..MaxCols
    /\ constants \in {<<>>, <<RexLiteral(1)>>}
    /\ df_columns = [i \in 1..constant_count_offset |-> RealColumn(i - 1)]
    /\ cc_columns = [i \in 1..constant_count_offset |->
                        <<FieldName(i - 1), RealColumn(i - 1)>>]
    /\ window = None
    /\ groups_done = 0
    /\ status = "running"
    /\ error = None
    /\ tasks = 0
    /\ processed = 0
    /\ IdleBound /\ IdleFrame /\ IdleFrameIn /\ IdleGroup

\* One turn of the loop over rel.getGroups().  groupby.apply with meta given
\* is deferred by dask: it adds a task to the graph and runs nothing.
ApplyWindow(w) ==
    /\ status = "running"
    /\ groups_done < MaxGroups
    /\ window' = Some(w)
    /\ LET r == _apply_window(w, constants, constant_count_offset,
                              df_columns, cc_columns, groups_done)
       IN  IF r.tag = "ok"
               THEN /\ df_columns' = r.df
                    /\ cc_columns' = r.cc
                    /\ groups_done' = groups_done + 1
                    /\ tasks' = tasks + 1
                    /\ UNCHANGED <<status, error>>
               ELSE /\ status' = "raised"
                    /\ error' = Some(r.error)
                    /\ UNCHANGED <<df_columns, cc_columns, groups_done, tasks>>
    /\ UNCHANGED <<processed, poolVars, boundVars, frameVars, frameIn, groupVars>>

\* The loop is over: convert returns the data container.
ConvertReturn ==
    /\ status = "running"
    /\ status' = "returned"
    /\ UNCHANGED <<df_columns, cc_columns, window, groups_done, error, tasks,
                   processed, poolVars, boundVars, frameVars, frameIn, groupVars>>

\* The returned dataframe is computed: a deferred task runs map_on_each_group
\* on its partitions.
Compute ==
    /\ status = "returned"
    /\ processed < tasks
    /\ processed' = processed + 1
    /\ UNCHANGED <<df_columns, cc_columns, window, groups_done, status, error,
                   tasks, poolVars, boundVars, frameVars, frameIn, groupVars>>

Next ==
    \/ \E w \in Windows : ApplyWindow(w)
    \/ ConvertReturn
    \/ Compute

Spec == Init /\ [][Next]_vars

---------------------------------------------------------------------------
\* Frame ranges (SpecFrame).

LowerOffset == SignedOffset(lower_bound)
UpperOffset == SignedOffset(upper_bound)

\* C1: in the general branch, for all integer signed offsets (an upper offset
\* of 0 included) and every partition length, the Indexer returns for every
\* row i start_i = clamp(i + lower_offset, 0, n) and
\* end_i = clamp(i + upper_offset + 1, 0, n).
C1_GeneralBranchClamps ==
    (FrameDone /\ Branch = "general" /\ ~IsNone(LowerOffset) /\ ~IsNone(UpperOffset))
        => /\ frame.tag = "ok"
           /\ \A i \in Rows :
                /\ frame.start[i] = clamp(i + Val(LowerOffset), 0, num_values)
                /\ frame.end[i] = clamp(i + Val(UpperOffset) + 1, 0, num_values)

\* The position of a bound in the frame order: UNBOUNDED PRECEDING first,
\* UNBOUNDED FOLLOWING last, the signed offset in between.
FramePosition(b) ==
    IF b.is_unbounded
        THEN IF b.is_preceding THEN -(MaxOffset + 1) ELSE MaxOffset + 1
        ELSE Val(SignedOffset(b))

ValidFrame == FramePosition(lower_bound) <= FramePosition(upper_bound)

\* C2: for every valid (lower, upper, n), the frame ranges computed for the
\* partition satisfy 0 <= start_i <= end_i <= n for every row i.
C2_RangesWellFormed ==
    (FrameDone /\ frame.tag = "ok" /\ ValidFrame)
        => \A i \in Rows :
               /\ 0 <= frame.start[i]
               /\ frame.start[i] <= frame.end[i]
               /\ frame.end[i] <= num_values

\* Ranges were computed by the Indexer for a valid frame that is clamped at
\* both ends of the partition.
C2_Witness ==
    /\ FrameDone /\ frame.tag = "ok" /\ ValidFrame
    /\ Branch = "general"
    /\ num_values >= 2
    /\ \E i \in Rows : i + Val(LowerOffset) < 0
    /\ \E i \in Rows : i + Val(UpperOffset) + 1 > num_values

\* C3: the fast paths (expanding, trailing) produce the (start, end)
\* sequences the Indexer built from the equivalent signed offsets (None or
\* -k as start, 0 as end) produces.
C3_FastPathsMatchIndexer ==
    (FrameDone /\ Branch \in {"expanding", "rolling"})
        => LET general == get_window_bounds(
                              IF Branch = "expanding" THEN None
                              ELSE Some(-Val(lower_bound.offset)),
                              Some(0), num_values)
           IN  /\ general.tag = "ok"
               /\ general.start = frame.start
               /\ general.end = frame.end

\* C4: a range with end_i < start_i is never returned: the frame computation
\* fails instead.
C4_ReversedRangeIsAnError ==
    FrameDone =>
        \/ frame.tag = "raise"
        \/ \A i \in Rows : frame.start[i] <= frame.end[i]

---------------------------------------------------------------------------
\* The resolver (SpecBound).

IsReference == ~IsNone(java_window.offset) /\ Val(java_window.offset).kind = "RexInputRef"
PoolIndex == Val(java_window.offset).n - constant_count_offset

\* C6: a constant-pool reference is looked up at (reference index -
\* constant_offset); an index out of the pool's range, at or above its length
\* or below 0, fails instead of resolving to a pool entry.
C6_PoolReferenceInRangeOrFails ==
    (bound # Pending /\ IsReference)
        => IF 0 <= PoolIndex /\ PoolIndex < Len(constants)
               THEN /\ bound.tag = "ok"
                    /\ bound.value.offset = Some(constants[PoolIndex + 1].n)
               ELSE bound.tag = "raise"

\* A raw bound the resolver supports: unbounded, current row, or preceding /
\* following with an offset.
SupportedBound(jw) ==
    \/ jw.isUnbounded
    \/ jw.isCurrentRow
    \/ (jw.isPreceding \/ jw.isFollowing) /\ ~IsNone(jw.offset)

\* C7: the resolver fails for every raw bound that is neither unbounded, nor
\* current row, nor preceding / following with an offset; it returns no
\* BoundDescription for it.
C7_UnsupportedBoundFails ==
    (bound # Pending /\ ~SupportedBound(java_window)) => bound.tag = "raise"

---------------------------------------------------------------------------
\* One partition (SpecGroup).

IsRowNumber(op) == IsNone(op[1])
OnlyRowNumber == \A j \in 1..Len(operations) : IsRowNumber(operations[j])

\* C8: row_number yields 1, 2, ..., n along the sorted rows of the partition
\* whatever the sort keys and the frame bounds are, and no frame makes a
\* group of row_number calls fail.
C8_RowNumberCountsRows ==
    GroupDone =>
        /\ OnlyRowNumber => group_out.tag = "ok"
        /\ group_out.tag = "ok" =>
             \A j \in 1..Len(operations) :
                 IsRowNumber(operations[j]) =>
                     /\ group_out.new_columns[operations[j][2]]
                            = [i \in 1..Len(partitioned_group) |-> i]
                     /\ Len(group_out.rows) = Len(partitioned_group)

\* row_number came out for a partition the sort reordered, under a frame
\* (CURRENT ROW to CURRENT ROW) whose Indexer has no bounds to give.
C8_Witness ==
    /\ GroupDone /\ group_out.tag = "ok"
    /\ OnlyRowNumber
    /\ Len(partitioned_group) >= 2
    /\ group_out.rows # partitioned_group
    /\ lower_bound = CURRENT_ROW /\ upper_bound = CURRENT_ROW

\* C9 as stated: the partition returned has the rows of the partition given,
\* in the same order, also when order keys are specified.
C9_RowOrderKept ==
    (GroupDone /\ group_out.tag = "ok") => group_out.rows = partitioned_group

\* C9 amended: the partition returned holds exactly the rows it was given,
\* each once and with its original column values; they are in the given order
\* when there are no order keys, and otherwise in the order of the stable
\* sort on the order key.
C9_RowsKeptInSortedOrder ==
    (GroupDone /\ group_out.tag = "ok") =>
        LET rows == group_out.rows
            n == Len(partitioned_group)
        IN  /\ Len(rows) = n
            /\ \A j \in 1..n : \E i \in 1..n : rows[i] = partitioned_group[j]
            /\ sort_columns = <<>> => rows = partitioned_group
            /\ sort_columns # <<>> =>
                 \A i \in 1..n : \A j \in 1..n :
                     i < j =>
                         /\ ~Before(rows[j].k, rows[i].k,
                                    sort_ascending[1], sort_null_first[1])
                         /\ (~Before(rows[i].k, rows[j].k,
                                     sort_ascending[1], sort_null_first[1])
                                 => rows[i].id < rows[j].id)

\* A partition with a null, a tie and an inversion was sorted descending
\* with nulls first, and new columns were appended.
C9_Witness ==
    /\ GroupDone /\ group_out.tag = "ok"
    /\ sort_columns # <<>> /\ ~sort_ascending[1] /\ sort_null_first[1]
    /\ Len(partitioned_group) >= 3
    /\ group_out.rows # partitioned_group
    /\ \E i \in 1..Len(partitioned_group) : IsNone(partitioned_group[i].k)
    /\ DOMAIN group_out.new_columns # {}

---------------------------------------------------------------------------
\* The plan driver (Spec).

UnknownOperator(agg_call) ==
    /\ str_lower(agg_call.operator) \notin DOMAIN OPERATION_MAPPING
    /\ str_lower(agg_call.operator) \notin DOMAIN context_functions

HasUnknownOperator(w) ==
    \E c \in 1..Len(w.aggCalls) : UnknownOperator(w.aggCalls[c])

IsHelperColumn(col) == col[1] \in {"group", "operand"}

\* C5: a window group with an aggregate call whose operator is in neither
\* registry makes convert raise the unsupported-operator error, whichever
\* group it is and wherever the call stands in it, with no partition
\* processed and the table as it was before the group.
C5_UnknownOperatorFailsFast ==
    (~IsNone(window) /\ HasUnknownOperator(Val(window)))
        => /\ status = "raised"
           /\ error = Some("NotImplementedError")
           /\ processed = 0
           /\ tasks = groups_done
           /\ \A j \in 1..Len(df_columns) : ~IsHelperColumn(df_columns[j])
           /\ df_columns = [j \in 1..Len(cc_columns) |-> cc_columns[j][2]]

\* The unknown operator was the second call of a later group, after a call
\* that had materialised an operand column.
C5_Witness ==
    /\ status = "raised" /\ error = Some("NotImplementedError")
    /\ groups_done >= 1
    /\ Len(Val(window).aggCalls) >= 2
    /\ ~UnknownOperator(Val(window).aggCalls[1])
    /\ Val(window).aggCalls[1].operands # <<>>
    /\ UnknownOperator(Val(window).aggCalls[2])

\* C10: _apply_window leaves the table with the columns it had before plus
\* one new column per aggregate call of the group, in order; no helper
\* column (grouping key, operand temporary) stays and none of the columns
\* before is dropped.
C10_OnlyResultColumnsAdded ==
    [][groups_done' = groups_done + 1 =>
          LET calls == Val(window').aggCalls
              before == Len(df_columns)
          IN  /\ Len(df_columns') = before + Len(calls)
              /\ SubSeq(df_columns', 1, before) = df_columns
              /\ \A c \in 1..Len(calls) :
                     df_columns'[before + c]
                         = new_temporary_column("result", groups_done, c, 0)
              /\ \A j \in 1..Len(df_columns') : ~IsHelperColumn(df_columns'[j])
              /\ Len(cc_columns') = Len(cc_columns) + Len(calls)
              /\ SubSeq(cc_columns', 1, Len(cc_columns)) = cc_columns
              /\ \A c \in 1..Len(calls) :
                     cc_columns'[Len(cc_columns) + c][2] = df_columns'[before + c]
      ]_vars

\* A second group was applied that had no PARTITION BY (the constant key 1)
\* and a call with an operand, on a table that already held result columns.
C10_Witness ==
    /\ status = "running"
    /\ groups_done >= 2
    /\ Val(window).keys = <<>>
    /\ \E c \in 1..Len(Val(window).aggCalls) : Val(window).aggCalls[c].operands # <<>>
    /\ Len(df_columns) >= constant_count_offset + 2

=============================================================================
